---- MODULE Spec2Model ----
(***************************************************************************)
(* A model of dom-builder: parseDomString (the compact string grammar),    *)
(* domBuilderBasicSetup (id / class / attribute application) and           *)
(* domBuilder (the recursive tree builder).                                *)
(*                                                                         *)
(* JavaScript strings are sequences of one-character strings, so that the  *)
(* regular expression, split, trim and join can be computed.  A JavaScript *)
(* value that may be of several types is a record with a kind field k and  *)
(* one field per type, so that every field has one type in every record.   *)
(***************************************************************************)
EXTENDS Integers, Sequences, FiniteSets, TLC

VARIABLES
  domString,      \* parseDomString: its argument
  parsed,         \* parseDomString: [called, result]
  element,        \* domBuilderBasicSetup called alone: the element
  domBuilderItem, \* domBuilderBasicSetup called alone: the (mutable) item
  setupCalls,     \* domBuilderBasicSetup called alone: number of calls made
  given,          \* history: the item as the caller wrote it
  afterFirst,     \* history: the element after the first call
  nodes,          \* domBuilder: the host document's elements, by identity
  stack,          \* domBuilder: the call frames, innermost last
  outcome,        \* domBuilder: the top-level call, [state, value]
  errors,         \* domBuilder: number of console.error calls
  called,         \* domBuilder: the elements the callbacks were invoked with
  setupLog,       \* history: every completed domBuilderBasicSetup call
  hostStrict      \* the host's setAttribute rejects names that are not XML names

vars == <<domString, parsed, element, domBuilderItem, setupCalls, given, afterFirst,
          nodes, stack, outcome, errors, called, setupLog, hostStrict>>

parseVars == <<domString, parsed>>
setupVars == <<element, domBuilderItem, setupCalls, given, afterFirst>>
buildVars == <<nodes, stack, outcome, errors, called, setupLog, hostStrict>>

-----------------------------------------------------------------------------
(* Bounds *)

\* longest argument of parseDomString in SpecParse
MaxLen == 3
\* calls of domBuilderBasicSetup on one element with one item in SpecSetup
MaxCalls == 2
\* longest items array of the top-level domBuilder call
MaxItems == 2

-----------------------------------------------------------------------------
(* Strings *)

Max(S) == CHOOSE x \in S : \A y \in S : y <= x
Min(S) == CHOOSE x \in S : \A y \in S : x <= y

LowerCase == <<"a","b","c","d","e","f","g","h","i","j","k","l","m",
               "n","o","p","q","r","s","t","u","v","w","x","y","z">>
UpperCase == <<"A","B","C","D","E","F","G","H","I","J","K","L","M",
               "N","O","P","Q","R","S","T","U","V","W","X","Y","Z">>
Digits == <<"0","1","2","3","4","5","6","7","8","9">>

Range(f) == {f[i] : i \in DOMAIN f}

\* [a-zA-Z]
IsLetter(c) == c \in Range(LowerCase) \cup Range(UpperCase)
\* [a-zA-Z0-9_-]
IsIdChar(c) == IsLetter(c) \/ c \in Range(Digits) \/ c \in {"_", "-"}
\* [([{]
IsOpen(c) == c \in {"(", "[", "{"}
\* [)\]}]
IsClose(c) == c \in {")", "]", "}"}
\* . matches everything but a line terminator
IsDot(c) == c \notin {"\n", "\r"}
\* String.prototype.trim's white space (the part of it the model's strings use)
IsSpace(c) == c \in {" ", "\t", "\n", "\r"}

\* String.prototype.toLowerCase
toLowerCase(s) ==
  [i \in DOMAIN s |->
     IF s[i] \in Range(UpperCase)
     THEN LowerCase[CHOOSE k \in DOMAIN UpperCase : UpperCase[k] = s[i]]
     ELSE s[i]]

\* String.prototype.trim
trim(s) ==
  LET keep == {i \in DOMAIN s : ~IsSpace(s[i])}
  IN IF keep = {} THEN <<>> ELSE SubSeq(s, Min(keep), Max(keep))

\* String.prototype.split(sep) for a one-character separator
RECURSIVE split(_, _)
split(s, sep) ==
  LET at == {i \in DOMAIN s : s[i] = sep}
  IN IF at = {} THEN <<s>>
     ELSE <<SubSeq(s, 1, Min(at) - 1)>> \o split(SubSeq(s, Min(at) + 1, Len(s)), sep)

\* Array.prototype.join(sep)
RECURSIVE join(_, _)
join(a, sep) ==
  IF a = <<>> THEN <<>>
  ELSE IF Len(a) = 1 THEN a[1]
  ELSE a[1] \o sep \o join(Tail(a), sep)

\* String(n) for a non-negative integer
RECURSIVE NumberToString(_)
NumberToString(n) ==
  IF n < 10 THEN <<Digits[n + 1]>>
  ELSE NumberToString(n \div 10) \o <<Digits[(n % 10) + 1]>>


\* parseInt of a string of digits
RECURSIVE StringToNumber(_)
StringToNumber(s) ==
  IF s = <<>> THEN 0
  ELSE 10 * StringToNumber(SubSeq(s, 1, Len(s) - 1))
       + ((CHOOSE k \in DOMAIN Digits : Digits[k] = s[Len(s)]) - 1)

-----------------------------------------------------------------------------
(* JavaScript values *)

Undefined == [k |-> "undef", s |-> <<>>, n |-> 0, a |-> <<>>]
Null      == [k |-> "null",  s |-> <<>>, n |-> 0, a |-> <<>>]
True      == [k |-> "true",  s |-> <<>>, n |-> 0, a |-> <<>>]
False     == [k |-> "false", s |-> <<>>, n |-> 0, a |-> <<>>]
Str(s)    == [k |-> "str",   s |-> s,    n |-> 0, a |-> <<>>]
Num(n)    == [k |-> "num",   s |-> <<>>, n |-> n, a |-> <<>>]
\* an array of strings
Arr(a)    == [k |-> "arr",   s |-> <<>>, n |-> 0, a |-> a]
\* a host element (an HTMLElement), by identity
NodeRef(n) == [k |-> "node", s |-> <<>>, n |-> n, a |-> <<>>]

\* v == null / v != null
IsNullish(v) == v.k \in {"undef", "null"}

\* ToBoolean
Truthy(v) ==
  CASE v.k \in {"undef", "null", "false"} -> FALSE
    [] v.k = "str" -> v.s # <<>>
    [] v.k = "num" -> v.n # 0
    [] OTHER -> TRUE

\* String(v); an element stringifies to "[object HTMLElement]"
ObjectHTMLElement == <<"[","o","b","j","e","c","t"," ","H","T","M","L",
                       "E","l","e","m","e","n","t","]">>
String(v) ==
  CASE v.k = "str"   -> v.s
    [] v.k = "num"   -> NumberToString(v.n)
    [] v.k = "true"  -> <<"t","r","u","e">>
    [] v.k = "false" -> <<"f","a","l","s","e">>
    [] v.k = "null"  -> <<"n","u","l","l">>
    [] v.k = "undef" -> <<"u","n","d","e","f","i","n","e","d">>
    [] v.k = "arr"   -> join(v.a, <<",">>)
    [] v.k = "node"  -> ObjectHTMLElement

\* attrs: undefined, an array whose first entry is not an array ("flat": the
\* single pair [name, value], or []), an array of arrays ("nested"), or a plain
\* object ("obj").  ps lists the pairs <<name, value>>; the pair [] of [[]] is
\* <<<<>>, Undefined>>.
NoAttrs        == [k |-> "undef",  ps |-> <<>>]
FlatAttrs(ps)  == [k |-> "flat",   ps |-> ps]
PairsAttrs(ps) == [k |-> "nested", ps |-> ps]
ObjAttrs(ps)   == [k |-> "obj",    ps |-> ps]

\* content: a value, or a function returning the value
Content(v)  == [fn |-> FALSE, v |-> v]
Producer(v) == [fn |-> TRUE,  v |-> v]

\* children: undefined, an array of items, or something that is not an array
NoChildren      == [k |-> "undef", items |-> <<>>]
Children(items) == [k |-> "arr",   items |-> items]
BadChildren     == [k |-> "str",   items |-> <<>>]

\* A configuration object with every property absent.
EmptyObject ==
  [kind |-> "obj", str |-> <<>>, tag |-> Undefined, id |-> Undefined,
   className |-> Undefined, class |-> Undefined, attrs |-> NoAttrs,
   content |-> Content(Undefined), condition |-> Undefined,
   callback |-> FALSE, children |-> NoChildren]
\* null (or undefined) where an item or a fragment is expected
NullItem == [EmptyObject EXCEPT !.kind = "null"]
\* a string item
StringItem(s) == [EmptyObject EXCEPT !.kind = "str", !.str = s]

-----------------------------------------------------------------------------
(* Plain objects: own string keys in property order *)

\* an array index: "0", or digits without a leading zero
IsIndexKey(name) ==
  /\ name # <<>>
  /\ \A i \in DOMAIN name : name[i] \in Range(Digits)
  /\ (Len(name) > 1 => name[1] # "0")

\* OrdinaryOwnPropertyKeys: array indices ascending, then insertion order
OwnPropertyKeys(ps) ==
  SortSeq(SelectSeq(ps, LAMBDA p : IsIndexKey(p[1])),
          LAMBDA x, y : StringToNumber(x[1]) < StringToNumber(y[1]))
  \o SelectSeq(ps, LAMBDA p : ~IsIndexKey(p[1]))

\* obj[name] = value
SetProperty(ps, name, value) ==
  IF \E i \in DOMAIN ps : ps[i][1] = name
  THEN [i \in DOMAIN ps |-> IF ps[i][1] = name THEN <<name, value>> ELSE ps[i]]
  ELSE OwnPropertyKeys(Append(ps, <<name, value>>))

\* {...a, ...b} for two lists of own properties
RECURSIVE AssignAll(_, _)
AssignAll(ps, qs) ==
  IF qs = <<>> THEN ps
  ELSE AssignAll(SetProperty(ps, qs[1][1], qs[1][2]), Tail(qs))

-----------------------------------------------------------------------------------------------------------------------------------------------------
(* parseDomString: the regular expression                                   *)
(*                                                                          *)
(* The pattern is five optional groups in a row and then $.  A position p   *)
(* is the number of characters consumed.  Ends lists the positions a group  *)
(* may end at when it takes part; the backtracking matcher settles on its   *)
(* first choice from which the rest of the pattern matches: the longest end *)
(* of a greedy group, the shortest of the lazy attribute block, and no part *)
(* taken only when no end completes.                                        *)

TagGroup == 1
IdGroup == 2
ClassesGroup == 3
AttrsGroup == 4
ContentGroup == 5

AllIn(s, from, to, P(_)) == \A i \in from..to : P(s[i])

\* (?:\.[a-zA-Z0-9_-]+)* from p to e
RECURSIVE IsClasses(_, _, _)
IsClasses(s, p, e) ==
  \/ p = e
  \/ \E m \in (p + 2)..e :
       /\ s[p + 1] = "."
       /\ AllIn(s, p + 2, m, IsIdChar)
       /\ IsClasses(s, m, e)

\* the run of spaces of " +" at p ends here (the run is greedy, and what it
\* leaves is matched by .* whatever it is)
SpacesEnd(s, p) ==
  Max({p} \cup {e \in (p + 1)..Len(s) : AllIn(s, p + 1, e, LAMBDA c : c = " ")})

\* where group g may end when it takes part at p
Ends(s, g, p) ==
  CASE g = TagGroup ->      \* ^([a-zA-Z]+)?
         {e \in 1..Len(s) : AllIn(s, 1, e, IsLetter)}
    [] g = IdGroup ->       \* (?:#([a-zA-Z0-9_-]+))?
         {e \in (p + 2)..Len(s) : s[p + 1] = "#" /\ AllIn(s, p + 2, e, IsIdChar)}
    [] g = ClassesGroup ->  \* ((?:\.[a-zA-Z0-9_-]+)*)? ; an empty pass of an
                            \* optional group is no pass
         {e \in (p + 1)..Len(s) : IsClasses(s, p, e)}
    [] g = AttrsGroup ->    \* ([([{].*?[)\]}])?
         {e \in (p + 2)..Len(s) :
            IsOpen(s[p + 1]) /\ IsClose(s[e]) /\ AllIn(s, p + 2, e - 1, IsDot)}
    [] g = ContentGroup ->  \* (?: +(.*))?
         {e \in {Len(s)} : SpacesEnd(s, p) > p /\ AllIn(s, p + 1, e, IsDot)}

\* the capture of group g taking part from p to e
Capture(s, g, p, e) ==
  CASE g = IdGroup -> Str(SubSeq(s, p + 2, e))
    [] g = ContentGroup -> Str(SubSeq(s, SpacesEnd(s, p) + 1, e))
    [] OTHER -> Str(SubSeq(s, p + 1, e))

\* groups g.. and $ at p: whether they match, and the captures [g]..[5]; a
\* group that took no part is undefined
RECURSIVE MatchFrom(_, _, _)
MatchFrom(s, g, p) ==
  IF g > ContentGroup THEN [ok |-> p = Len(s), g |-> <<>>]
  ELSE LET ok == {e \in Ends(s, g, p) : MatchFrom(s, g + 1, e).ok}
           e == IF g = AttrsGroup THEN Min(ok) ELSE Max(ok)
       IN IF ok # {}
          THEN [ok |-> TRUE, g |-> <<Capture(s, g, p, e)>> \o MatchFrom(s, g + 1, e).g]
          ELSE IF MatchFrom(s, g + 1, p).ok
          THEN [ok |-> TRUE, g |-> <<Undefined>> \o MatchFrom(s, g + 1, p).g]
          ELSE [ok |-> FALSE, g |-> <<>>]

\* domString.match(regex): null, or the groups [1]..[5]
match(s) == MatchFrom(s, TagGroup, 0)

-----------------------------------------------------------------------------
(* parseDomString *)

\* x?.trim() || null for a capture group
TrimOrNull(g) ==
  IF g.k = "undef" \/ trim(g.s) = <<>> THEN Null ELSE Str(trim(g.s))

\* attrsContent.split(/\s*,\s*/): the white space around each comma goes with it
TrimStart(s) ==
  LET keep == {i \in DOMAIN s : ~IsSpace(s[i])}
  IN IF keep = {} THEN <<>> ELSE SubSeq(s, Min(keep), Len(s))
TrimEnd(s) ==
  LET keep == {i \in DOMAIN s : ~IsSpace(s[i])}
  IN IF keep = {} THEN <<>> ELSE SubSeq(s, 1, Max(keep))
SplitOnCommas(s) ==
  LET raw == split(s, ",")
  IN [i \in DOMAIN raw |->
        LET a == IF i > 1 THEN TrimStart(raw[i]) ELSE raw[i]
        IN IF i < Len(raw) THEN TrimEnd(a) ELSE a]

\* pair.split(/[:=]/, 2): the first two pieces of the split on every : and =
RECURSIVE SplitOnSeparators(_)
SplitOnSeparators(s) ==
  LET at == {i \in DOMAIN s : s[i] \in {":", "="}}
  IN IF at = {} THEN <<s>>
     ELSE <<SubSeq(s, 1, Min(at) - 1)>>
          \o SplitOnSeparators(SubSeq(s, Min(at) + 1, Len(s)))
SplitPair(pair) == SubSeq(SplitOnSeparators(pair), 1, 2)

\* the body of attrPairs.forEach: attrs after one more pair
ParseAttrPair(attrs, pair) ==
  IF pair = <<>> THEN attrs
  ELSE IF \E i \in DOMAIN pair : pair[i] \in {":", "="}
  THEN LET parts == SplitPair(pair)
       IN SetProperty(attrs, trim(parts[1]), Str(trim(parts[2])))
  ELSE SetProperty(attrs, trim(pair), True)

RECURSIVE ParseAttrPairs(_, _)
ParseAttrPairs(attrs, attrPairs) ==
  IF attrPairs = <<>> THEN attrs
  ELSE ParseAttrPairs(ParseAttrPair(attrs, attrPairs[1]), Tail(attrPairs))

\* the attrs object built from matches[4]
ParseAttrs(g) ==
  LET rawAttrs == TrimOrNull(g)
  IN IF rawAttrs.k = "null" THEN <<>>
     ELSE ParseAttrPairs(<<>>,
            SplitOnCommas(SubSeq(rawAttrs.s, 2, Len(rawAttrs.s) - 1)))

\* matches[3] ? matches[3].slice(1).split('.').map(c => c.trim()) : []
ParseClasses(g) ==
  IF ~Truthy(g) THEN <<>>
  ELSE LET cs == split(SubSeq(g.s, 2, Len(g.s)), ".")
       IN [i \in DOMAIN cs |-> trim(cs[i])]

\* the object returned for a match (lines 62-104), or null (lines 50-52)
Parsed(matches) ==
  IF ~matches.ok THEN NullItem
  ELSE [EmptyObject EXCEPT
          !.tag = Str(toLowerCase(IF Truthy(matches.g[1]) THEN matches.g[1].s
                                  ELSE <<"d","i","v">>)),
          !.id = TrimOrNull(matches.g[2]),
          !.className = Str(join(ParseClasses(matches.g[3]), <<" ">>)),
          !.attrs = ObjAttrs(ParseAttrs(matches.g[4])),
          !.content = Content(TrimOrNull(matches.g[5]))]

parseDomString(s) == Parsed(match(s))

-----------------------------------------------------------------------------
(* parseDomString called alone *)

\* the characters of the arguments: letters of both cases, a digit, every
\* punctuation class of the grammar, and a character outside it
Alphabet == {"h", "P", "1", "#", ".", "-", "(", "]", ":", ",", " ", "!"}

RECURSIVE StringsUpTo(_)
StringsUpTo(n) ==
  IF n = 0 THEN {<<>>}
  ELSE LET shorter == StringsUpTo(n - 1)
       IN shorter \cup {Append(s, c) : s \in shorter, c \in Alphabet}

NotCalled == [called |-> FALSE, result |-> NullItem]

ParseInit ==
  /\ domString \in StringsUpTo(MaxLen)
  /\ parsed = NotCalled

Parse ==
  /\ ~parsed.called
  /\ parsed' = [called |-> TRUE, result |-> parseDomString(domString)]
  /\ UNCHANGED domString

-----------------------------------------------------------------------------
(* The host document (consumed, not part of the repository): an element is  *)
(* its tag, its attributes in order, the markup assigned to innerHTML, its  *)
(* child elements in order and its parent (0: none).  className and id      *)
(* reflect the attributes class and id.                                     *)

\* document.createElement(tag)
createElement(tag) ==
  [tag |-> tag, attributes |-> <<>>, innerHTML |-> <<>>,
   childNodes |-> <<>>, parentNode |-> 0]

\* a name the XML Name production accepts (what setAttribute checked before
\* the DOM standard relaxed it)
IsXmlName(name) ==
  /\ name # <<>>
  /\ IsLetter(name[1]) \/ name[1] \in {"_", ":"}
  /\ \A i \in DOMAIN name : IsIdChar(name[i]) \/ name[i] \in {".", ":"}
\* a valid attribute local name of the current DOM standard
IsAttributeName(name) ==
  /\ name # <<>>
  /\ \A i \in DOMAIN name : ~IsSpace(name[i]) /\ name[i] \notin {"/", "=", ">"}
\* setAttribute throws InvalidCharacterError on the names the host rejects
HostRejects(name, strict) ==
  IF strict THEN ~IsXmlName(name) ELSE ~IsAttributeName(name)

\* the attribute list after setting name (lower-cased by an HTML element)
WithAttribute(attributes, name, value) ==
  LET nm == toLowerCase(name)
  IN IF \E i \in DOMAIN attributes : attributes[i][1] = nm
     THEN [i \in DOMAIN attributes |->
             IF attributes[i][1] = nm THEN <<nm, value>> ELSE attributes[i]]
     ELSE Append(attributes, <<nm, value>>)

\* element.getAttribute(name), null as Null
getAttribute(el, name) ==
  IF \E i \in DOMAIN el.attributes : el.attributes[i][1] = name
  THEN Str(el.attributes[CHOOSE i \in DOMAIN el.attributes :
                           el.attributes[i][1] = name][2])
  ELSE Null

ClassName == <<"c","l","a","s","s">>
IdName == <<"i","d">>

-----------------------------------------------------------------------------
(* domBuilderBasicSetup *)

\* lines 10-12: class is used when className is not set
ResolveClassAlias(item) ==
  IF Truthy(item.class) /\ ~Truthy(item.className)
  THEN [item EXCEPT !.className = item.class]
  ELSE item

\* (mutant) the second branch lacks !Array.isArray: an array of pairs is
\* taken for an object and replaced by its entries, index by index
NormalizeAttrs_EntriesOfArray(attrs) ==
  CASE attrs.k = "flat" ->
         PairsAttrs(IF attrs.ps = <<>> THEN << <<<<>>, Undefined>> >> ELSE attrs.ps)
    [] attrs.k = "obj" ->
         IF attrs.ps = <<>> THEN FlatAttrs(<<>>) ELSE PairsAttrs(attrs.ps)
    [] attrs.k = "nested" ->
         PairsAttrs([i \in DOMAIN attrs.ps |->
                       << NumberToString(i - 1),
                          Arr(<< attrs.ps[i][1],
                                 IF IsNullish(attrs.ps[i][2]) THEN <<>>
                                 ELSE String(attrs.ps[i][2]) >>) >>])
    [] OTHER -> attrs
\* lines 15-21: attrs as an array of pairs
NormalizeAttrs(attrs) ==
  CASE attrs.k = "flat" ->
         PairsAttrs(IF attrs.ps = <<>> THEN << <<<<>>, Undefined>> >> ELSE attrs.ps)
    [] attrs.k = "obj" ->
         IF attrs.ps = <<>> THEN FlatAttrs(<<>>) ELSE PairsAttrs(attrs.ps)
    [] OTHER -> attrs

\* lines 23-27: (attrs ?? []).forEach(...), stopping where setAttribute throws
RECURSIVE ApplyAttrs(_, _, _)
ApplyAttrs(el, ps, strict) ==
  IF ps = <<>> THEN [threw |-> FALSE, el |-> el]
  ELSE IF IsNullish(ps[1][2]) THEN ApplyAttrs(el, Tail(ps), strict)
  ELSE IF HostRejects(ps[1][1], strict) THEN [threw |-> TRUE, el |-> el]
  ELSE ApplyAttrs(
         [el EXCEPT !.attributes = WithAttribute(@, ps[1][1], String(ps[1][2]))],
         Tail(ps), strict)

\* lines 30-34
ApplyClassName(el, className) ==
  IF Truthy(className)
  THEN [el EXCEPT !.attributes =
          WithAttribute(@, ClassName,
            IF className.k = "arr"
            THEN join(SelectSeq(className.a, LAMBDA c : c # <<>>), <<" ">>)
            ELSE String(className))]
  ELSE el

\* lines 35-37
ApplyId(el, id) ==
  IF Truthy(id)
  THEN [el EXCEPT !.attributes = WithAttribute(@, IdName, String(id))]
  ELSE el

\* (mutant) className and id are applied before the attributes
domBuilderBasicSetup_AttrsLast(el, item, strict) ==
  LET item1 == ResolveClassAlias(item)
      item2 == [item1 EXCEPT !.attrs = NormalizeAttrs(@)]
      set   == ApplyAttrs(ApplyId(ApplyClassName(el, item2.className), item2.id),
                          item2.attrs.ps, strict)
  IN [threw |-> set.threw, el |-> set.el, item |-> item2]
\* the element and the item (rewritten in place) after the call; threw when
\* setAttribute threw
domBuilderBasicSetup(el, item, strict) ==
  LET item1 == ResolveClassAlias(item)
      item2 == [item1 EXCEPT !.attrs = NormalizeAttrs(@)]
      set   == ApplyAttrs(el, item2.attrs.ps, strict)
  IN IF set.threw THEN [threw |-> TRUE, el |-> set.el, item |-> item2]
     ELSE [threw |-> FALSE,
           el    |-> ApplyId(ApplyClassName(set.el, item2.className), item2.id),
           item  |-> item2]

-----------------------------------------------------------------------------
(* domBuilderBasicSetup called alone: one element, one item object, and the *)
(* calls made with them                                                     *)

\* "x", "y", "k", "m", "c", "z", "t", "u": an id, class names, attribute names
SetupIds == {Undefined, Str(<<"x">>)}
SetupClassNames ==
  {Undefined, Str(<<"k">>), Arr(<<>>), Arr(<<<<"k">>, <<>>, <<"m">>>>)}
SetupClasses == {Undefined, Str(<<"c">>), Arr(<<<<"c">>>>)}
SetupPairs ==
  { << <<IdName, Str(<<"y">>)>> >>,
    << <<ClassName, Str(<<"z">>)>> >>,
    << <<<<"t">>, Num(5)>> >>,
    << <<<<"t">>, Null>> >> }
SetupPairLists ==
  SetupPairs \cup
  { << <<IdName, Str(<<"y">>)>>, <<ClassName, Str(<<"z">>)>> >>,
    << <<<<"t">>, True>>, <<<<"u">>, Undefined>>, <<IdName, Str(<<"y">>)>> >> }
SetupAttrs ==
  {NoAttrs, FlatAttrs(<<>>), ObjAttrs(<<>>)}
  \cup {FlatAttrs(ps) : ps \in SetupPairs}
  \cup {PairsAttrs(ps) : ps \in SetupPairLists}
  \cup {ObjAttrs(ps) : ps \in SetupPairLists}
  \* a list of pairs may name an attribute twice, an object cannot
  \cup {PairsAttrs(<< <<IdName, Str(<<"y">>)>>, <<IdName, Str(<<"z">>)>> >>)}

SetupItems ==
  {[EmptyObject EXCEPT !.id = i, !.className = cn, !.class = c, !.attrs = a] :
     i \in SetupIds, cn \in SetupClassNames, c \in SetupClasses, a \in SetupAttrs}

SetupInit ==
  /\ element = createElement(<<"d","i","v">>)
  /\ domBuilderItem \in SetupItems
  /\ given = domBuilderItem
  /\ setupCalls = 0
  /\ afterFirst = element

\* domBuilderBasicSetup(element, domBuilderItem), with the same two objects
Setup ==
  /\ setupCalls < MaxCalls
  /\ LET r == domBuilderBasicSetup(element, domBuilderItem, hostStrict)
     IN /\ element' = r.el
        /\ domBuilderItem' = r.item
        /\ afterFirst' = IF setupCalls = 0 THEN r.el ELSE afterFirst
  /\ setupCalls' = setupCalls + 1
  /\ UNCHANGED given

-----------------------------------------------------------------------------
(* domBuilder: host operations on the document *)

\* parent.appendChild(child): child leaves its former parent
appendChild(ns, p, c) ==
  LET old == ns[c].parentNode
      ns1 == IF old # 0
             THEN [ns EXCEPT ![old].childNodes = SelectSeq(@, LAMBDA x : x # c)]
             ELSE ns
  IN [ns1 EXCEPT ![p].childNodes = Append(@, c), ![c].parentNode = p]

\* e.innerHTML = markup: the children of e leave it; the markup is kept as text
setInnerHTML(ns, e, markup) ==
  [i \in DOMAIN ns |->
     IF i = e THEN [ns[i] EXCEPT !.childNodes = <<>>, !.innerHTML = markup]
     ELSE IF ns[i].parentNode = e THEN [ns[i] EXCEPT !.parentNode = 0]
     ELSE ns[i]]

\* the conversion of a value assigned to innerHTML (null is the empty string)
MarkupOf(v) == IF v.k = "null" THEN <<>> ELSE String(v)

-----------------------------------------------------------------------------
(* domBuilder: one item *)

Div == <<"d","i","v">>

\* {...a} for attrs: the own properties of undefined, an array or an object.
\* An array's own properties are its indices; an entry that is itself a pair
\* is an array value.
SpreadAttrs(attrs) ==
  CASE attrs.k = "obj" -> attrs.ps
    [] attrs.k = "flat" ->
         IF attrs.ps = <<>> THEN <<>>
         ELSE << <<<<"0">>, Str(attrs.ps[1][1])>>, <<<<"1">>, attrs.ps[1][2]>> >>
    [] attrs.k = "nested" ->
         [i \in DOMAIN attrs.ps |->
            << NumberToString(i - 1),
               Arr(<< attrs.ps[i][1],
                      IF IsNullish(attrs.ps[i][2]) THEN <<>>
                      ELSE String(attrs.ps[i][2]) >>) >>]
    [] OTHER -> <<>>

\* line 111: {...parsedItem.attrs ?? {}, ...item.attrs ?? {}}
MergeAttrs(parsedAttrs, itemAttrs) ==
  ObjAttrs(AssignAll(SpreadAttrs(parsedAttrs), SpreadAttrs(itemAttrs)))

\* line 115: {...parsedItem, ...item}: the properties item has win
Overlay(parsedItem, item) ==
  LET Pick(a, b) == IF b.k = "undef" THEN a ELSE b
  IN [parsedItem EXCEPT
        !.tag = Pick(@, item.tag),
        !.id = Pick(@, item.id),
        !.className = Pick(@, item.className),
        !.class = Pick(@, item.class),
        !.attrs = Pick(@, item.attrs),
        !.content = IF item.content.fn \/ item.content.v.k # "undef"
                    THEN item.content ELSE @,
        !.condition = Pick(@, item.condition),
        !.callback = item.callback,
        !.children = Pick(@, item.children)]

\* (mutant) every segment of a chain is given the record's properties
SegmentSpec_Always(parsedItem, item, isLast) == Overlay(parsedItem, item)
\* line 115: {...parsedItem, ...(isLast ? item ?? {} : {})}
SegmentSpec(parsedItem, item, isLast) ==
  IF isLast THEN Overlay(parsedItem, item) ELSE parsedItem

\* A history entry for an element domBuilder creates: the call (its parent
\* argument) and nesting depth, the index of the item and the chain segment
\* it comes from, the item as the caller wrote it, whether
\* domBuilderBasicSetup completed, and whether lines 162-177 have run.
Entry(el, f, seg, isLast, done) ==
  [el |-> el, call |-> f.parent0, depth |-> f.depth, idx |-> f.idx,
   seg |-> seg, isLast |-> isLast, src |-> f.items[f.idx], done |-> done,
   finished |-> FALSE]

\* The working state of one pass through the forEach body: the document, the
\* history, the variables parent and el, the item, and whether it threw.
Work(f, item) ==
  [threw |-> FALSE, nodes |-> nodes, log |-> setupLog, errors |-> errors,
   parent |-> f.parent, el |-> f.el, item |-> item]

\* line 111, on the last segment: item.attrs becomes the merge of the parsed
\* attrs and its own
ChainItem(item, parsedItem, isLast) ==
  IF isLast THEN [item EXCEPT !.attrs = MergeAttrs(parsedItem.attrs, @)] ELSE item

\* line 114: createElement(parsedItem.tag || 'div')
ChainElement(parsedItem) ==
  createElement(IF Truthy(parsedItem.tag) THEN String(parsedItem.tag) ELSE Div)

RECURSIVE ChainFrom(_, _, _)
\* lines 113-125 for segment j, given what domBuilderBasicSetup made of it
ChainLink(w, f, j, item, r) ==
  LET isLast == j = Len(item.tag.a)
      el == Len(w.nodes) + 1
      w1 == [w EXCEPT !.nodes = Append(@, r.el),
                      !.log = Append(@, Entry(el, f, j, isLast, ~r.threw)),
                      !.el = el, !.item = item, !.threw = r.threw]
  IN IF r.threw \/ isLast THEN w1
     ELSE ChainFrom(
            [w1 EXCEPT !.nodes = IF w.parent # 0
                                 THEN appendChild(@, w.parent, el) ELSE @,
                       !.parent = el],
            f, j + 1)

\* lines 106-116 for segment j, given the parsed segment
ChainSegment(w, f, j, parsedItem, isLast) ==
  \* parsedItem.attrs and parsedItem.tag throw a TypeError on null
  IF parsedItem.kind = "null" THEN [w EXCEPT !.threw = TRUE]
  ELSE ChainLink(w, f, j, ChainItem(w.item, parsedItem, isLast),
         domBuilderBasicSetup(ChainElement(parsedItem),
           SegmentSpec(parsedItem, ChainItem(w.item, parsedItem, isLast), isLast),
           hostStrict))

\* lines 103-125 from segment j of item.tag on
ChainFrom(w, f, j) ==
  IF j > Len(w.item.tag.a) THEN w
  ELSE ChainSegment(w, f, j, parseDomString(w.item.tag.a[j]), j = Len(w.item.tag.a))

\* lines 128-131, given what domBuilderBasicSetup made of the item
SingleMade(w, f, r) ==
  [w EXCEPT !.nodes = Append(@, r.el),
            !.log = Append(@, Entry(Len(w.nodes) + 1, f, 1, TRUE, ~r.threw)),
            !.el = Len(w.nodes) + 1,
            \* a string has no properties to rewrite
            !.item = IF w.item.kind = "obj" THEN r.item ELSE w.item,
            !.threw = r.threw]

\* lines 128-131
Single(w, f) ==
  SingleMade(w, f,
    domBuilderBasicSetup(
      createElement(IF IsNullish(w.item.tag) THEN Div ELSE String(w.item.tag)),
      w.item, hostStrict))

\* lines 135-151
SetContent(w) ==
  LET c == w.item.content
      content == IF c.fn THEN c.v
                 ELSE IF ~IsNullish(c.v) THEN Str(String(c.v))
                 ELSE Str(<<>>)
  IN IF ~(c.fn \/ Truthy(c.v)) THEN w
     ELSE IF content.k = "node"
     THEN [w EXCEPT !.nodes = appendChild(@, w.el, content.n)]
     ELSE [w EXCEPT !.nodes = setInnerHTML(@, w.el, MarkupOf(content))]

\* lines 154-157
CheckChildren(w) ==
  IF w.item.children.k = "str" THEN [w EXCEPT !.errors = @ + 1] ELSE w

\* lines 135-157, unless the element could not be set up
ContentAndChildren(w) ==
  IF w.threw THEN w ELSE CheckChildren(SetContent(w))

\* lines 99-157
Process(f, item) ==
  ContentAndChildren(IF item.tag.k = "arr" THEN ChainFrom(Work(f, item), f, 1)
                     ELSE Single(Work(f, item), f))

-----------------------------------------------------------------------------
(* domBuilder: the call frames *)

\* A call of domBuilder: its arguments (items, parent as passed: parent0,
\* options.emptyParent), its local variables, the index of the item forEach
\* is at, the item being processed, and where the call stands: "enter"
\* (lines 72-84), "loop" (between items), "finish" (an item is at line 162,
\* after the call for its children).  0 is null / undefined for an element.
Frame(items, parent, emptyParent, depth) ==
  [items |-> items, idx |-> 1, parent |-> parent, parent0 |-> parent,
   emptyParent |-> emptyParent, depth |-> depth, mainElement |-> 0, el |-> 0,
   grand_parent |-> 0, item |-> NullItem, phase |-> "enter"]

Top == stack[Len(stack)]
SetTop(f) == [stack EXCEPT ![Len(stack)] = f]

\* lines 88-90: a non-empty string item is parsed
Lowered(raw) ==
  IF raw.kind = "str" /\ raw.str # <<>> THEN parseDomString(raw.str) ELSE raw

\* line 94: item != null && (item.condition ?? true)
Passes(item) ==
  /\ item.kind # "null"
  /\ IsNullish(item.condition) \/ Truthy(item.condition)

\* lines 72-84
Enter ==
  /\ stack # <<>>
  /\ Top.phase = "enter"
  /\ nodes' = IF Top.parent # 0 /\ Top.emptyParent
              THEN setInnerHTML(nodes, Top.parent, <<>>) ELSE nodes
  /\ stack' = SetTop([Top EXCEPT !.phase = "loop"])
  /\ UNCHANGED <<outcome, errors, called, setupLog, hostStrict>>

\* lines 86-94 for an item that fails the test of line 94
SkipItem ==
  /\ stack # <<>>
  /\ Top.phase = "loop"
  /\ Top.idx <= Len(Top.items)
  /\ ~Passes(Lowered(Top.items[Top.idx]))
  /\ stack' = SetTop([Top EXCEPT !.idx = @ + 1])
  /\ UNCHANGED <<nodes, outcome, errors, called, setupLog, hostStrict>>

\* the frame when the item is at line 162: parent, el and item as lines 99-157
\* left them, grand_parent as line 101 set it for a chain
AtFinish(f, w) ==
  [f EXCEPT !.parent = w.parent, !.el = w.el, !.item = w.item,
            !.grand_parent = IF w.item.tag.k = "arr" THEN f.parent ELSE @,
            !.phase = "finish"]

\* lines 154-160, with w the outcome of lines 99-157: the call for the
\* children, or the exception that ends every call in progress
Descend(f, w) ==
  /\ nodes' = w.nodes
  /\ setupLog' = w.log
  /\ errors' = w.errors
  /\ stack' = IF w.threw THEN <<>>
              ELSE IF w.item.children.k = "arr"
              THEN Append(SetTop(AtFinish(f, w)),
                          Frame(w.item.children.items, w.el, FALSE, f.depth + 1))
              ELSE SetTop(AtFinish(f, w))
  /\ outcome' = IF w.threw THEN [state |-> "threw", value |-> 0] ELSE outcome

\* lines 88-160 for the item (parsed when it was a string)
Build(f, item) ==
  /\ Passes(item)
  /\ Descend(f, Process(f, item))

\* lines 86-160 for an item that passes: up to the call for its children, or
\* to the exception that ends every call in progress
BeginItem ==
  /\ stack # <<>>
  /\ Top.phase = "loop"
  /\ Top.idx <= Len(Top.items)
  /\ Build(Top, Lowered(Top.items[Top.idx]))
  /\ UNCHANGED <<called, hostStrict>>

\* (mutant) mainElement is overwritten by every item
EndItem_LastWins ==
  /\ stack # <<>>
  /\ Top.phase = "finish"
  /\ LET f == Top
     IN /\ nodes' = IF f.parent # 0 THEN appendChild(nodes, f.parent, f.el) ELSE nodes
        /\ called' = IF f.item.callback THEN Append(called, f.el) ELSE called
        /\ setupLog' = [i \in DOMAIN setupLog |->
                          IF setupLog[i].el = f.el
                          THEN [setupLog[i] EXCEPT !.finished = TRUE]
                          ELSE setupLog[i]]
        /\ stack' = SetTop([f EXCEPT
                      !.mainElement = f.el,
                      !.parent = IF f.grand_parent # 0 THEN f.grand_parent ELSE @,
                      !.idx = @ + 1,
                      !.phase = "loop"])
  /\ UNCHANGED <<outcome, errors, hostStrict>>

\* (mutant) the element is put before the parent's children, not after them
EndItem_Prepend ==
  /\ stack # <<>>
  /\ Top.phase = "finish"
  /\ LET f == Top
         ns == IF f.parent # 0 THEN appendChild(nodes, f.parent, f.el) ELSE nodes
     IN /\ nodes' = IF f.parent # 0
                    THEN [ns EXCEPT ![f.parent].childNodes =
                            <<f.el>> \o SubSeq(@, 1, Len(@) - 1)]
                    ELSE ns
        /\ called' = IF f.item.callback THEN Append(called, f.el) ELSE called
        /\ setupLog' = [i \in DOMAIN setupLog |->
                          IF setupLog[i].el = f.el
                          THEN [setupLog[i] EXCEPT !.finished = TRUE]
                          ELSE setupLog[i]]
        /\ stack' = SetTop([f EXCEPT
                      !.mainElement = IF @ = 0 THEN f.el ELSE @,
                      !.parent = IF f.grand_parent # 0 THEN f.grand_parent ELSE @,
                      !.idx = @ + 1,
                      !.phase = "loop"])
  /\ UNCHANGED <<outcome, errors, hostStrict>>

\* lines 162-177
EndItem ==
  /\ stack # <<>>
  /\ Top.phase = "finish"
  /\ LET f == Top
     IN /\ nodes' = IF f.parent # 0 THEN appendChild(nodes, f.parent, f.el) ELSE nodes
        /\ called' = IF f.item.callback THEN Append(called, f.el) ELSE called
        /\ setupLog' = [i \in DOMAIN setupLog |->
                          IF setupLog[i].el = f.el
                          THEN [setupLog[i] EXCEPT !.finished = TRUE]
                          ELSE setupLog[i]]
        /\ stack' = SetTop([f EXCEPT
                      !.mainElement = IF @ = 0 THEN f.el ELSE @,
                      !.parent = IF f.grand_parent # 0 THEN f.grand_parent ELSE @,
                      !.idx = @ + 1,
                      !.phase = "loop"])
  /\ UNCHANGED <<outcome, errors, hostStrict>>

\* line 182: return mainElement
Return ==
  /\ stack # <<>>
  /\ Top.phase = "loop"
  /\ Top.idx > Len(Top.items)
  /\ stack' = SubSeq(stack, 1, Len(stack) - 1)
  /\ outcome' = IF Len(stack) = 1
                THEN [state |-> "returned", value |-> Top.mainElement]
                ELSE outcome
  /\ UNCHANGED <<nodes, errors, called, setupLog, hostStrict>>

-----------------------------------------------------------------------------
(* domBuilder: the document and the arguments of the top-level call *)

\* The document before the call: element 1 (Container) holding element 2, and
\* the detached element 3 (Loose), which items may give as their content.
Container == 1
Loose == 3
Document ==
  << [createElement(<<"m","a","i","n">>) EXCEPT !.childNodes = <<2>>],
     [createElement(<<"h","r">>) EXCEPT !.parentNode = 1],
     createElement(<<"e","m">>) >>

\* string items and chain segments
P     == <<"p">>
H1    == <<"h","1">>
DivA  == <<"d","i","v",".","a">>
SpanB == <<"s","p","a","n",".","b">>
Li    == <<"l","i">>
PHi   == <<"p","#","x",".","c"," ","h","i">>
ATU   == <<"a","(","t",":","1",",","u",":","2",")">>
Extra == <<"e","x","t","r","a">>

Obj(tag) == [EmptyObject EXCEPT !.tag = Str(tag)]
Chain(segs) == [EmptyObject EXCEPT !.tag = Arr(segs)]

\* the child lists of the items that have children
ChildLists ==
  { <<>>,
    <<StringItem(Li)>>,
    <<NullItem, StringItem(Li), Obj(<<"b">>)>>,
    <<[Chain(<<DivA, SpanB>>) EXCEPT !.callback = TRUE], StringItem(P)>>,
    <<[Obj(<<"o","l">>) EXCEPT !.children = Children(<<StringItem(Li), StringItem(Li)>>)],
      StringItem(<<>>)>> }

\* items about skipping, order, parents and the returned element
CoreItems ==
  { NullItem, StringItem(<<>>), StringItem(P), StringItem(H1),
    [Obj(<<"s","p","a","n">>) EXCEPT !.condition = False],
    [Chain(<<DivA, SpanB>>) EXCEPT !.className = Str(Extra)],
    [Obj(<<"u","l">>) EXCEPT
       !.children = Children(<<NullItem, StringItem(Li), Obj(<<"b">>)>>)],
    [Obj(P) EXCEPT !.callback = TRUE] }

\* the values of content
ContentValues ==
  {Null, Str(<<>>), Str(<<"t","x","t">>), Num(0), Num(7), NodeRef(Loose)}
ContentItems ==
  {[EmptyObject EXCEPT !.content = Content(v)] : v \in ContentValues}
  \cup {[EmptyObject EXCEPT !.content = Producer(v)] :
          v \in ContentValues \cup {Undefined}}
  \cup {StringItem(PHi)}

\* tag chains
ChainTags ==
  { <<SpanB>>, <<DivA, SpanB>>, <<DivA, Li, SpanB>>, <<Li, ATU>>,
    <<DivA, H1>>, <<H1, SpanB>> }
ChainAttrs ==
  { NoAttrs,
    FlatAttrs(<< <<<<"t">>, Str(<<"9">>)>> >>),
    PairsAttrs(<< <<<<"t">>, Str(<<"9">>)>> >>),
    ObjAttrs(<< <<<<"t">>, Str(<<"9">>)>> >>) }
ChainItems ==
  {[Chain(segs) EXCEPT !.attrs = a] : segs \in ChainTags, a \in ChainAttrs}
  \cup {[Chain(segs) EXCEPT !.className = cn, !.class = c, !.id = i] :
          segs \in {<<DivA, SpanB>>, <<DivA, Li>>},
          cn \in {Undefined, Str(Extra), Arr(<<Extra, <<"k">>>>)},
          c \in {Undefined, Str(<<"c">>)},
          i \in {Undefined, Str(<<"x">>)}}
  \cup {[Chain(<<DivA, SpanB>>) EXCEPT !.content = Content(Str(<<"t","x","t">>)),
                                       !.callback = TRUE, !.children = Children(cs)] :
          cs \in ChildLists}

\* children, and id / class / attrs on a single tag
OtherItems ==
  {[Obj(<<"u","l">>) EXCEPT !.children = Children(cs)] : cs \in ChildLists}
  \cup {[Obj(<<"u","l">>) EXCEPT !.children = BadChildren]}
  \cup {[Obj(P) EXCEPT !.id = Str(<<"x">>), !.attrs = a] :
          a \in { ObjAttrs(<< <<IdName, Str(<<"y">>)>> >>),
                  FlatAttrs(<< <<<<"1">>, Str(<<"y">>)>> >>) }}

FeatureItems == ContentItems \cup ChainItems \cup OtherItems

RECURSIVE SeqsUpTo(_, _)
SeqsUpTo(S, n) ==
  IF n = 0 THEN {<<>>}
  ELSE LET shorter == SeqsUpTo(S, n - 1)
       IN shorter \cup {Append(s, x) : s \in {t \in shorter : Len(t) = n - 1}, x \in S}

\* the items arrays: every array of core items up to MaxItems, and every
\* other item alone, before a sibling and after one
Inputs ==
  SeqsUpTo(CoreItems, MaxItems)
  \cup {<<i>> : i \in FeatureItems}
  \cup {<<i, StringItem(P)>> : i \in FeatureItems}
  \cup {<<StringItem(P), i>> : i \in FeatureItems}

BuildInit ==
  /\ nodes = Document
  /\ \E items \in Inputs :
       \E args \in {<<0, FALSE>>, <<Container, FALSE>>, <<Container, TRUE>>} :
         stack = <<Frame(items, args[1], args[2], 1)>>
  /\ outcome = [state |-> "running", value |-> 0]
  /\ errors = 0
  /\ called = <<>>
  /\ setupLog = <<>>
  /\ hostStrict \in BOOLEAN

-----------------------------------------------------------------------------
(* Specifications *)

\* the variables of the other operations, while one operation is exercised
SetupIdle ==
  /\ element = createElement(<<>>)
  /\ domBuilderItem = NullItem
  /\ setupCalls = 0
  /\ given = NullItem
  /\ afterFirst = createElement(<<>>)
BuildIdle ==
  /\ nodes = Document
  /\ stack = <<>>
  /\ outcome = [state |-> "idle", value |-> 0]
  /\ errors = 0
  /\ called = <<>>
  /\ setupLog = <<>>
  /\ hostStrict = FALSE
ParseIdle ==
  /\ domString = <<>>
  /\ parsed = NotCalled

InitParse == ParseInit /\ SetupIdle /\ BuildIdle
NextParse == Parse /\ UNCHANGED setupVars /\ UNCHANGED buildVars
SpecParse == InitParse /\ [][NextParse]_vars


InitSetup == SetupInit /\ ParseIdle /\ BuildIdle
NextSetup == Setup /\ UNCHANGED parseVars /\ UNCHANGED buildVars
SpecSetup == InitSetup /\ [][NextSetup]_vars

Init == BuildInit /\ ParseIdle /\ SetupIdle
Next ==
  \/ Enter /\ UNCHANGED parseVars /\ UNCHANGED setupVars
  \/ SkipItem /\ UNCHANGED parseVars /\ UNCHANGED setupVars
  \/ BeginItem /\ UNCHANGED parseVars /\ UNCHANGED setupVars
  \/ EndItem /\ UNCHANGED parseVars /\ UNCHANGED setupVars
  \/ Return /\ UNCHANGED parseVars /\ UNCHANGED setupVars
Spec == Init /\ [][Next]_vars

-----------------------------------------------------------------------------
(* Properties: helpers *)

AttrSet(el) == Range(el.attributes)

\* the text a class / className value stands for
ClassText(v) ==
  IF v.k = "arr" THEN join(SelectSeq(v.a, LAMBDA c : c # <<>>), <<" ">>)
  ELSE String(v)

\* the space-separated tokens of a string
Tokens(s) == {t \in Range(split(s, " ")) : t # <<>>}

\* the pairs an attrs value stands for, whatever its shape, without the
\* values that are null or undefined
PairsOf(attrs) == SelectSeq(attrs.ps, LAMBDA p : ~IsNullish(p[2]))

\* the attributes that setting the pairs in order leaves: the last value of
\* each name, as a string
AttrsFrom(ps) ==
  {<<toLowerCase(ps[i][1]), String(ps[i][2])>> : i \in
     {i \in DOMAIN ps : \A j \in DOMAIN ps : j > i => ps[j][1] # ps[i][1]}}

NotClassOrId(S) == {p \in S : p[1] \notin {ClassName, IdName}}


\* the history entries of the elements domBuilder has created
Entries == DOMAIN setupLog
IsChain(e) == e.src.kind = "obj" /\ e.src.tag.k = "arr"
Segment(e) == parseDomString(e.src.tag.a[e.seg])

-----------------------------------------------------------------------------
(* Properties *)

\* C1: an item that is null, undefined or the empty string is skipped: no
\* element is ever created for it (so none is appended or returned for it).
C1_EmptyItemsSkipped ==
  \A i \in Entries :
    LET s == setupLog[i].src
    IN ~(s.kind = "null" \/ (s.kind = "str" /\ s.str = <<>>))

\* C2: between items, the parent pointer of every call is the parent the call
\* was given, and every element made for an item's first (or only) tag hangs
\* under that parent, or under nothing when no parent was given.
C2_ParentRestored ==
  /\ \A k \in DOMAIN stack :
       stack[k].phase = "loop" => stack[k].parent = stack[k].parent0
  /\ \A i \in Entries :
       LET e == setupLog[i]
       IN e.seg = 1 /\ e.finished => nodes[e.el].parentNode = e.call

\* C3: parseDomString returns a record for every string, never null.
C3_ParseNeverNull == parsed.called => parsed.result.kind # "null"

\* C4: once an item's content is resolved, a value that is neither null nor
\* an element is the element's innerHTML as a string, an element is a child
\* of the item's element, and null or undefined leaves the content empty.
C4_ContentResolved ==
  \A k \in DOMAIN stack :
    stack[k].phase = "finish" =>
      LET v == stack[k].item.content.v
          el == nodes[stack[k].el]
      IN CASE v.k = "node" -> \E c \in DOMAIN el.childNodes : el.childNodes[c] = v.n
           [] IsNullish(v) -> el.innerHTML = <<>>
           [] OTHER -> el.innerHTML = String(v)

\* C5: the attributes of a chain's last element (class and id apart) are the
\* ones parsed from its segment overridden by the record's attrs, whichever
\* shape the record's attrs has.
C5_ChainAttrsAnyShape ==
  \A i \in Entries :
    LET e == setupLog[i]
    IN IsChain(e) /\ e.isLast =>
         NotClassOrId(AttrSet(nodes[e.el]))
           = NotClassOrId(AttrsFrom(PairsOf(Segment(e).attrs) \o PairsOf(e.src.attrs)))

\* The state right after a chain item has been processed (lines 162-177 have
\* run for it and the next item has not begun): the index of the history
\* entry of its last element, or 0 in any other state.
ChainJustBuilt ==
  IF stack # <<>> /\ Top.phase = "loop" /\ Top.el # 0
  THEN LET i == CHOOSE i \in Entries : setupLog[i].el = Top.el
       IN IF setupLog[i].idx = Top.idx - 1 /\ IsChain(setupLog[i]) THEN i ELSE 0
  ELSE 0

\* the chain whose last entry is i made one element per segment, in order,
\* each the only child of the one before it
ChainNested(i) ==
  LET e == setupLog[i]
      n == Len(e.src.tag.a)
  IN /\ e.seg = n /\ e.isLast /\ i >= n
     /\ \A s \in 1..n :
          LET x == setupLog[i - n + s]
          IN /\ x.seg = s /\ x.idx = e.idx /\ x.call = e.call
             /\ s > 1 =>
                  /\ nodes[x.el].parentNode = setupLog[i - n + s - 1].el
                  /\ nodes[setupLog[i - n + s - 1].el].childNodes = <<x.el>>

\* the intermediate elements of the chain whose last entry is i carry only
\* what their own segments encode, have no content and got no callback
ChainIntermediateOwn(i) ==
  \A k \in (i - Len(setupLog[i].src.tag.a) + 1)..(i - 1) :
    LET x == setupLog[k]
        own == Segment(x)
    IN /\ NotClassOrId(AttrSet(nodes[x.el])) = AttrsFrom(PairsOf(own.attrs))
       /\ getAttribute(nodes[x.el], ClassName)
            = (IF own.className.s = <<>> THEN Null ELSE own.className)
       /\ getAttribute(nodes[x.el], IdName) = own.id
       /\ nodes[x.el].innerHTML = <<>>
       /\ \A c \in DOMAIN called : called[c] # x.el

C10_SetupIdempotent == setupCalls >= 2 => element = afterFirst
\* two calls made with a record whose attrs the first call rewrote in place
\* and whose attributes reached the element
C10_Witness ==
  /\ setupCalls >= 2
  /\ domBuilderItem.attrs # given.attrs
  /\ given.attrs.k = "obj"
  /\ domBuilderItem.className # given.className
  /\ Len(element.attributes) >= 2

\* the elements of the top-level call's items: the last (or only) one of each
TopEntries == {i \in Entries : setupLog[i].depth = 1 /\ setupLog[i].isLast}

\* C8: domBuilder returns the element of the first top-level item, in input
\* order, that produced one (for a chain, its last segment's element; never an
\* element of a children call), and null when no item produced one; an item
\* whose condition is false produces no element.
C8_ReturnsFirstElement ==
  /\ outcome.state = "returned" =>
       outcome.value =
         (IF TopEntries = {} THEN 0
          ELSE setupLog[CHOOSE i \in TopEntries :
                 \A j \in TopEntries : setupLog[i].idx <= setupLog[j].idx].el)
  /\ \A i \in Entries :
       IsNullish(setupLog[i].src.condition) \/ Truthy(setupLog[i].src.condition)
\* a call has returned an element while two top-level items and a children
\* call had produced elements
C8_Witness ==
  /\ outcome.state = "returned"
  /\ outcome.value # 0
  /\ Cardinality(TopEntries) >= 2
  /\ \E i \in Entries : setupLog[i].depth > 1

\* an element domBuilder created (the document's own elements come first)
IsBuilt(x) == x > Len(Document)

\* the elements a call has put under its parent argument so far, in the order
\* it made them: for each item its only element once lines 162-177 have run,
\* or the element of its chain's first segment
TopsOf(call) ==
  LET es == SelectSeq(setupLog, LAMBDA e :
              /\ e.call = call /\ e.seg = 1
              /\ (~e.isLast /\ e.done) \/ e.finished)
  IN [i \in DOMAIN es |-> es[i].el]

\* C9: the elements a call appends to its parent are the parent's children in
\* the order of their items, after what the parent held before (nothing when
\* emptyParent cleared it); and when an item begins, every element made for
\* the items before it, and for their children, has had lines 162-177 run and
\* hangs under its parent.
C9_Ordering ==
  /\ \A k \in DOMAIN stack :
       LET f == stack[k]
           kids == nodes[f.parent0].childNodes
       IN f.parent0 # 0 /\ f.phase # "enter" =>
            /\ SelectSeq(kids, IsBuilt) = TopsOf(f.parent0)
            /\ k = 1 => kids = (IF f.emptyParent THEN <<>>
                                ELSE Document[Container].childNodes)
                               \o TopsOf(f.parent0)
  /\ \A i, j \in Entries :
       i < j /\ setupLog[i].call = setupLog[j].call =>
         /\ setupLog[i].idx <= setupLog[j].idx
         /\ setupLog[i].idx < setupLog[j].idx =>
              \A k \in i..(j - 1) :
                LET x == setupLog[k]
                IN /\ x.isLast => x.finished
                   /\ x.call # 0 => nodes[x.el].parentNode # 0
\* two items of a call with a parent have been processed, the first with
\* children of its own, and the parent kept what it held before
C9_Witness ==
  /\ stack # <<>>
  /\ stack[1].parent0 = Container /\ ~stack[1].emptyParent
  /\ stack[1].phase = "loop" /\ stack[1].idx = 3
  /\ Len(nodes[Container].childNodes) = 3
  /\ \E i \in Entries : setupLog[i].depth = 2 /\ setupLog[i].finished

=============================================================================
